---- MODULE Spec2Model ----
(***************************************************************************)
(* Model of profanity_filter.cpp: the three matching strategies            *)
(* (SimpleReplacementFilter, RegexFilter, TrieFilter) and the HybridFilter *)
(* that owns one of each.  A std::string is a sequence of one-character    *)
(* strings; positions are 0-based as in the source, so character i of s is *)
(* s[i + 1].                                                               *)
(***************************************************************************)
EXTENDS Integers, Sequences, FiniteSets, TLC

\* ------------------------------------------------------------------ bounds
MaxAdds == 2        \* addProfanity calls in one run
MaxTextLen == 3     \* length of the exhaustively enumerated texts

\* ----------------------------------------------------------------- strings
NPos == 0 - 1       \* std::string::npos

Min(S) == CHOOSE x \in S : \A y \in S : x <= y
Max(S) == CHOOSE x \in S : \A y \in S : x >= y

\* The characters of the model in increasing ASCII order.
Ascii == << "*", "+", "A", "S", "[", "]", "a", "b", "c", "d", "e", "f", "h",
            "i", "k", "m", "n", "o", "r", "s", "t", "u" >>

Ord(c) == CHOOSE k \in 1..Len(Ascii) : Ascii[k] = c

\* ::tolower on one character
ToLowerChar(c) ==
  CASE c = "A" -> "a"
    [] c = "S" -> "s"
    [] OTHER -> c

toLower(str) == [i \in 1..Len(str) |-> ToLowerChar(str[i])]

\* operator< of std::string (lexicographic, byte-wise): the order in which a
\* std::set<std::string> is iterated.
StrLess(a, b) ==
  \E k \in 0..Len(a) :
     /\ k <= Len(b)
     /\ \A j \in 1..k : a[j] = b[j]
     /\ \/ (k = Len(a) /\ k < Len(b))
        \/ (k < Len(a) /\ k < Len(b) /\ Ord(a[k + 1]) < Ord(b[k + 1]))

FirstWord(words) == CHOOSE w \in words : \A v \in words \ {w} : StrLess(w, v)

\* haystack.find(needle, pos)
FindFrom(hay, needle, pos) ==
  LET cands == {p \in pos..(Len(hay) - Len(needle)) :
                   \A k \in 1..Len(needle) : hay[p + k] = needle[k]}
  IN IF cands = {} THEN NPos ELSE Min(cands)

\* Mutant of MaskRange: the matched range is replaced by a single mask
\* character (result.replace(pos, len, 1, mask)).
MaskRangeErase(result, pos, len, mask) ==
  IF len = 0 \/ pos + len > Len(result)
    THEN result
    ELSE SubSeq(result, 1, pos) \o << mask >>
           \o SubSeq(result, pos + len + 1, Len(result))

\* for (i = 0; i < len; ++i) result[pos + i] = mask;
MaskRange(result, pos, len, mask) ==
  [i \in 1..Len(result) |->
      IF i - 1 >= pos /\ i - 1 < pos + len THEN mask ELSE result[i]]

\* A censor call either returns a string or never returns.
Returned(s) == [hang |-> FALSE, str |-> s]
Hangs(s) == [hang |-> TRUE, str |-> s]

\* ------------------------------------------------- SimpleReplacementFilter
DefaultWords ==
  { <<"s","h","i","t">>, <<"f","u","c","k">>, <<"d","a","m","n">>,
    <<"a","s","s">>, <<"b","i","t","c","h">>,
    <<"b","a","s","t","a","r","d">> }

\* Mutant of SimpleContains: the text is compared with the word instead of
\* searched for it.
SimpleContainsWhole(list, text) ==
  LET lowerText == toLower(text)
  IN \E word \in list : lowerText = word

SimpleContains(list, text) ==
  LET lowerText == toLower(text)
  IN \E word \in list : FindFrom(lowerText, word, 0) # NPos

\* Mutant of SimpleCensorWord: the search resumes one character after the
\* start of the match (pos += 1), so overlapping occurrences are found.
RECURSIVE SimpleCensorWordOverlapping(_, _, _, _, _)
SimpleCensorWordOverlapping(result, lowerText, word, pos, mask) ==
  LET p == FindFrom(lowerText, word, pos)
  IN IF p = NPos
       THEN Returned(result)
       ELSE SimpleCensorWordOverlapping(
              MaskRange(result, p, Len(word), mask), lowerText, word, p + 1,
              mask)

\* The while loop of censor for one word, entered with the given pos.  The
\* loop body is a deterministic function of (result, pos); an iteration that
\* leaves both unchanged repeats for ever.
RECURSIVE SimpleCensorWord(_, _, _, _, _)
SimpleCensorWord(result, lowerText, word, pos, mask) ==
  LET p == FindFrom(lowerText, word, pos)
  IN IF p = NPos
       THEN Returned(result)
       ELSE LET r2 == MaskRange(result, p, Len(word), mask)
                pos2 == p + Len(word)
            IN IF pos2 = pos /\ r2 = result
                 THEN Hangs(result)
                 ELSE SimpleCensorWord(r2, lowerText, word, pos2, mask)

RECURSIVE SimpleCensorWords(_, _, _, _)
SimpleCensorWords(result, lowerText, words, mask) ==
  IF words = {}
    THEN Returned(result)
    ELSE LET word == FirstWord(words)
             r == SimpleCensorWord(result, lowerText, word, 0, mask)
         IN IF r.hang
              THEN r
              ELSE SimpleCensorWords(r.str, lowerText, words \ {word}, mask)

SimpleCensor(list, mask, text) ==
  SimpleCensorWords(text, toLower(text), list, mask)

SimpleAddProfanity(list, word) == list \cup {toLower(word)}

\* ------------------------------------------------------------- RegexFilter
\* A compiled std::regex over the pattern syntax the model uses: ordinary
\* characters, bracket classes [..], and the postfix quantifiers * and +.
\* It is a sequence of atoms; an atom matches min..(many ? any : 1)
\* characters of its class.  std::regex::icase folds the pattern's letters.
Atom(chars, min, many) == [chars |-> chars, min |-> min, many |-> many]

RECURSIVE Parse(_, _, _)
Parse(p, i, atoms) ==
  IF i > Len(p)
    THEN [ok |-> TRUE, atoms |-> atoms]
    ELSE IF p[i] \in {"*", "+"}
      THEN IF atoms = << >>
             THEN [ok |-> FALSE, atoms |-> << >>]      \* regex_error
             ELSE LET last == atoms[Len(atoms)]
                      q == Atom(last.chars,
                                IF p[i] = "*" THEN 0 ELSE last.min, TRUE)
                  IN Parse(p, i + 1, [atoms EXCEPT ![Len(atoms)] = q])
      ELSE IF p[i] = "["
        THEN LET close == {k \in (i + 1)..Len(p) : p[k] = "]"}
             IN IF close = {}
                  THEN [ok |-> FALSE, atoms |-> << >>]  \* regex_error
                  ELSE LET e == Min(close)
                           cls == {ToLowerChar(p[k]) : k \in (i + 1)..(e - 1)}
                       IN Parse(p, e + 1, Append(atoms, Atom(cls, 1, FALSE)))
        ELSE Parse(p, i + 1,
                   Append(atoms, Atom({ToLowerChar(p[i])}, 1, FALSE)))

Compile(pattern) == Parse(pattern, 1, << >>)

addPattern(patterns, pattern) ==
  LET c == Compile(pattern)
  IN IF c.ok THEN Append(patterns, c.atoms) ELSE patterns

\* End position of the match of atoms[k..] that starts at p (greedy, with
\* backtracking), or NPos.
RECURSIVE MatchAt(_, _, _, _)
MatchAt(atoms, k, text, p) ==
  IF k > Len(atoms)
    THEN p
    ELSE LET a == atoms[k]
             run == Max({n \in 0..(Len(text) - p) :
                           \A m \in 1..n : text[p + m] \in a.chars})
             maxN == IF a.many THEN run ELSE IF run >= 1 THEN 1 ELSE 0
             ok == {n \in a.min..maxN :
                      MatchAt(atoms, k + 1, text, p + n) # NPos}
         IN IF ok = {} THEN NPos
                       ELSE MatchAt(atoms, k + 1, text, p + Max(ok))

\* std::regex_search(searchStart, text.cend(), match, pattern): the leftmost
\* match at or after searchStart; pos is relative to the start of text.
RegexSearch(text, searchStart, atoms) ==
  LET starts == {p \in searchStart..Len(text) :
                    MatchAt(atoms, 1, text, p) # NPos}
  IN IF starts = {}
       THEN [found |-> FALSE, pos |-> 0, len |-> 0]
       ELSE LET p == Min(starts)
            IN [found |-> TRUE, pos |-> p,
                len |-> MatchAt(atoms, 1, text, p) - p]

RegexContains(patterns, text) ==
  LET lowerText == toLower(text)
  IN \E k \in 1..Len(patterns) : RegexSearch(lowerText, 0, patterns[k]).found

\* Mutant of RegexCensorPattern: the pattern is searched in the string as
\* masked so far instead of in lowerText.
RECURSIVE RegexCensorPatternProgressive(_, _, _, _, _)
RegexCensorPatternProgressive(result, lowerText, pattern, searchStart, mask) ==
  LET m == RegexSearch(toLower(result), searchStart, pattern)
  IN IF ~m.found
       THEN Returned(result)
       ELSE LET r2 == MaskRange(result, m.pos, m.len, mask)
                next == m.pos + m.len
            IN IF next = searchStart /\ r2 = result
                 THEN Hangs(result)
                 ELSE RegexCensorPatternProgressive(r2, lowerText, pattern,
                                                    next, mask)

\* The while loop of censor for one pattern.
RECURSIVE RegexCensorPattern(_, _, _, _, _)
RegexCensorPattern(result, lowerText, pattern, searchStart, mask) ==
  LET m == RegexSearch(lowerText, searchStart, pattern)
  IN IF ~m.found
       THEN Returned(result)
       ELSE LET r2 == MaskRange(result, m.pos, m.len, mask)
                next == m.pos + m.len          \* match.suffix().first
            IN IF next = searchStart /\ r2 = result
                 THEN Hangs(result)
                 ELSE RegexCensorPattern(r2, lowerText, pattern, next, mask)

RECURSIVE RegexCensorFrom(_, _, _, _, _)
RegexCensorFrom(result, lowerText, patterns, k, mask) ==
  IF k > Len(patterns)
    THEN Returned(result)
    ELSE LET r == RegexCensorPattern(result, lowerText, patterns[k], 0, mask)
         IN IF r.hang
              THEN r
              ELSE RegexCensorFrom(r.str, lowerText, patterns, k + 1, mask)

RegexCensor(patterns, mask, text) ==
  RegexCensorFrom(text, toLower(text), patterns, 1, mask)

DefaultPatterns ==
  << <<"s","h","i","t">>, <<"f","u","c","k">>, <<"d","a","m","n">>,
     <<"a","s","s">>, <<"b","i","t","c","h">>,
     <<"b","a","s","t","a","r","d">>,
     <<"f","[","a","e","i","o","u","*","]","+","c","k">>,
     <<"s","h","[","a","e","i","o","u","*","]","+","t">> >>

RECURSIVE addPatterns(_, _, _)
addPatterns(patterns, sources, k) ==
  IF k > Len(sources) THEN patterns
  ELSE addPatterns(addPattern(patterns, sources[k]), sources, k + 1)

\* -------------------------------------------------------------- TrieFilter
\* The trie is a function from the path of a node (the characters from the
\* root to it; the root is << >>) to the node's isEndOfWord flag.  A node's
\* children map holds c exactly when the path extended by c is a node.
NewTrie == (<< >> :> FALSE)

\* Mutant of HasChild: the find() guard is dropped, so every walk goes on
\* to children[c].
HasChildAlways(trie, node, c) == TRUE

\* node->children.find(c) != node->children.end()
HasChild(trie, node, c) == Append(node, c) \in DOMAIN trie

\* node->children[c] = std::make_shared<TrieNode>()
NewChild(trie, node, c) == (Append(node, c) :> FALSE) @@ trie

\* node->children[c]: unordered_map::operator[] inserts a value-initialised
\* element when the key is absent.  Yields the trie after the access and
\* the node reached.
ChildAt(trie, node, c) ==
  [trie |-> IF Append(node, c) \in DOMAIN trie
              THEN trie
              ELSE (Append(node, c) :> FALSE) @@ trie,
   node |-> Append(node, c)]

RECURSIVE addToTrieFrom(_, _, _, _)
addToTrieFrom(trie, word, k, node) ==
  IF k > Len(word)
    THEN [trie EXCEPT ![node] = TRUE]
    ELSE LET c == word[k]
             t1 == IF ~HasChild(trie, node, c) THEN NewChild(trie, node, c)
                                               ELSE trie
             ch == ChildAt(t1, node, c)
         IN addToTrieFrom(ch.trie, word, k + 1, ch.node)

addToTrie(trie, word) == addToTrieFrom(trie, word, 1, << >>)

TrieAddProfanity(trie, word) == addToTrie(trie, toLower(word))

\* The inner loop of containsProfanity, from index j at the given node.
RECURSIVE TrieContainsWalk(_, _, _, _)
TrieContainsWalk(trie, lowerText, j, node) ==
  IF j >= Len(lowerText)
    THEN [trie |-> trie, found |-> FALSE]
    ELSE LET c == lowerText[j + 1]
         IN IF ~HasChild(trie, node, c)
              THEN [trie |-> trie, found |-> FALSE]
              ELSE LET ch == ChildAt(trie, node, c)
                   IN IF ch.trie[ch.node]
                        THEN [trie |-> ch.trie, found |-> TRUE]
                        ELSE TrieContainsWalk(ch.trie, lowerText, j + 1,
                                              ch.node)

RECURSIVE TrieContainsFrom(_, _, _)
TrieContainsFrom(trie, lowerText, i) ==
  IF i >= Len(lowerText)
    THEN [trie |-> trie, found |-> FALSE]
    ELSE LET w == TrieContainsWalk(trie, lowerText, i, << >>)
         IN IF w.found THEN w
                       ELSE TrieContainsFrom(w.trie, lowerText, i + 1)

TrieContains(trie, text) == TrieContainsFrom(trie, toLower(text), 0)

\* Mutant of TrieCensorWalk: the walk stops at the first terminal node.
RECURSIVE TrieCensorWalkFirst(_, _, _, _, _, _, _)
TrieCensorWalkFirst(trie, lowerText, i, j, node, wordEnd, wordLength) ==
  IF j >= Len(lowerText)
    THEN [trie |-> trie, wordEnd |-> wordEnd, wordLength |-> wordLength]
    ELSE LET c == lowerText[j + 1]
         IN IF ~HasChild(trie, node, c)
              THEN [trie |-> trie, wordEnd |-> wordEnd,
                    wordLength |-> wordLength]
              ELSE LET ch == ChildAt(trie, node, c)
                   IN IF ch.trie[ch.node]
                        THEN [trie |-> ch.trie, wordEnd |-> j,
                              wordLength |-> j - i + 1]
                        ELSE TrieCensorWalkFirst(ch.trie, lowerText, i, j + 1,
                                                 ch.node, wordEnd, wordLength)

\* The inner loop of censor, from index j at the given node, for the start
\* position i.
RECURSIVE TrieCensorWalk(_, _, _, _, _, _, _)
TrieCensorWalk(trie, lowerText, i, j, node, wordEnd, wordLength) ==
  IF j >= Len(lowerText)
    THEN [trie |-> trie, wordEnd |-> wordEnd, wordLength |-> wordLength]
    ELSE LET c == lowerText[j + 1]
         IN IF ~HasChild(trie, node, c)
              THEN [trie |-> trie, wordEnd |-> wordEnd,
                    wordLength |-> wordLength]
              ELSE LET ch == ChildAt(trie, node, c)
                   IN IF ch.trie[ch.node]
                        THEN TrieCensorWalk(ch.trie, lowerText, i, j + 1,
                                            ch.node, j, j - i + 1)
                        ELSE TrieCensorWalk(ch.trie, lowerText, i, j + 1,
                                            ch.node, wordEnd, wordLength)

RECURSIVE TrieCensorFrom(_, _, _, _, _)
TrieCensorFrom(trie, result, lowerText, i, mask) ==
  IF i >= Len(lowerText)
    THEN [trie |-> trie, hang |-> FALSE, str |-> result]
    ELSE LET w == TrieCensorWalk(trie, lowerText, i, i, << >>, NPos, 0)
         IN IF w.wordEnd # NPos
              THEN TrieCensorFrom(w.trie,
                                  MaskRange(result, i, w.wordLength, mask),
                                  lowerText, w.wordEnd + 1, mask)
              ELSE TrieCensorFrom(w.trie, result, lowerText, i + 1, mask)

TrieCensor(trie, mask, text) ==
  TrieCensorFrom(trie, text, toLower(text), 0, mask)

DefaultTrieWords ==
  << <<"s","h","i","t">>, <<"f","u","c","k">>, <<"d","a","m","n">>,
     <<"a","s","s">>, <<"b","i","t","c","h">>,
     <<"b","a","s","t","a","r","d">> >>

RECURSIVE addAllToTrie(_, _, _)
addAllToTrie(trie, words, k) ==
  IF k > Len(words) THEN trie
  ELSE addAllToTrie(addToTrie(trie, words[k]), words, k + 1)

\* ------------------------------------------------------------ HybridFilter
\* containsProfanity: the enabled strategies in the order simple, regex,
\* trie, stopping at the first that reports a match.
HybridContains(list, patterns, trie, useSimple, useRegex, useTrie, text) ==
  IF useSimple /\ SimpleContains(list, text)
    THEN [trie |-> trie, found |-> TRUE]
    ELSE IF useRegex /\ RegexContains(patterns, text)
      THEN [trie |-> trie, found |-> TRUE]
      ELSE IF useTrie
        THEN TrieContains(trie, text)
        ELSE [trie |-> trie, found |-> FALSE]

\* Mutant of HybridCensor: the regex stage runs before the simple stage.
HybridCensorRegexFirst(list, patterns, trie, mask, useSimple, useRegex, useTrie, text) ==
  LET r1 == IF useRegex THEN RegexCensor(patterns, mask, text)
                        ELSE Returned(text)
      r2 == IF r1.hang THEN r1
            ELSE IF useSimple THEN SimpleCensor(list, mask, r1.str)
                              ELSE r1
  IN IF r2.hang
       THEN [trie |-> trie, hang |-> TRUE, str |-> r2.str]
       ELSE IF useTrie
         THEN TrieCensor(trie, mask, r2.str)
         ELSE [trie |-> trie, hang |-> FALSE, str |-> r2.str]

HybridCensor(list, patterns, trie, mask, useSimple, useRegex, useTrie, text) ==
  LET r1 == IF useSimple THEN SimpleCensor(list, mask, text)
                         ELSE Returned(text)
      r2 == IF r1.hang THEN r1
            ELSE IF useRegex THEN RegexCensor(patterns, mask, r1.str)
                             ELSE r1
  IN IF r2.hang
       THEN [trie |-> trie, hang |-> TRUE, str |-> r2.str]
       ELSE IF useTrie
         THEN TrieCensor(trie, mask, r2.str)
         ELSE [trie |-> trie, hang |-> FALSE, str |-> r2.str]

\* ------------------------------------------------------------------ inputs
SeqsUpTo(S, n) == UNION {[1..k -> S] : k \in 0..n}

TextChars == {"a", "s"}

SampleTexts ==
  { <<"a","s","s","a","s","s","i","n">>,
    <<"s","h","a","s","s","t">>,
    <<"A","S","S","a">>,
    <<"s","h","*","t">>,
    <<"a","*">>,
    <<"*">> }

\* The texts main tests a filter on.
Texts == SeqsUpTo(TextChars, MaxTextLen) \cup SampleTexts

\* The words passed to addProfanity.
AddWords ==
  { << >>, <<"*">>, <<"A","a">>, <<"a","s","s","a","s","s","i","n">> }

\* ------------------------------------------------------------------- state
VARIABLES
  profanityList,      \* SimpleReplacementFilter::profanityList
  profanityPatterns,  \* RegexFilter::profanityPatterns
  root,               \* TrieFilter::root, the whole trie
  replacementChar,    \* the replacementChar of the three filters
  useSimpleFilter, useRegexFilter, useTrieFilter,
  added,              \* history: the words passed to addProfanity so far
  addedDisabled,      \* history: the latest addProfanity came while all
                      \* three strategies were disabled
  call                \* the test of one text in progress, or idle

vars == << profanityList, profanityPatterns, root, replacementChar,
           useSimpleFilter, useRegexFilter, useTrieFilter, added,
           addedDisabled, call >>

Idle ==
  [pc |-> "idle", text |-> << >>, detected |-> FALSE, censored |-> << >>]

Called(text, detected, r) ==
  [pc |-> IF r.hang THEN "hung" ELSE "returned", text |-> text,
   detected |-> detected, censored |-> r.str]

\* HybridFilter hybridFilter('*'), whose constructor builds the three
\* sub-filters with their default lists.
Init ==
  /\ profanityList = DefaultWords
  /\ profanityPatterns = addPatterns(<< >>, DefaultPatterns, 1)
  /\ root = addAllToTrie(NewTrie, DefaultTrieWords, 1)
  /\ replacementChar = "*"
  /\ useSimpleFilter = TRUE
  /\ useRegexFilter = TRUE
  /\ useTrieFilter = TRUE
  /\ added = << >>
  /\ addedDisabled = FALSE
  /\ call = Idle

\* Mutant of AddProfanity: the word goes to the enabled sub-filters only.
AddProfanityEnabledOnly(word) ==
  /\ call.pc = "idle"
  /\ Len(added) < MaxAdds
  /\ profanityList' = IF useSimpleFilter
                        THEN SimpleAddProfanity(profanityList, word)
                        ELSE profanityList
  /\ profanityPatterns' = IF useRegexFilter
                            THEN addPattern(profanityPatterns, word)
                            ELSE profanityPatterns
  /\ root' = IF useTrieFilter THEN TrieAddProfanity(root, word) ELSE root
  /\ added' = Append(added, word)
  /\ addedDisabled' =
       (~useSimpleFilter /\ ~useRegexFilter /\ ~useTrieFilter)
  /\ UNCHANGED << replacementChar, useSimpleFilter, useRegexFilter,
                  useTrieFilter, call >>

\* HybridFilter::addProfanity(word)
AddProfanity(word) ==
  /\ call.pc = "idle"
  /\ Len(added) < MaxAdds
  /\ profanityList' = SimpleAddProfanity(profanityList, word)
  /\ profanityPatterns' = addPattern(profanityPatterns, word)
  /\ root' = TrieAddProfanity(root, word)
  /\ added' = Append(added, word)
  /\ addedDisabled' =
       (~useSimpleFilter /\ ~useRegexFilter /\ ~useTrieFilter)
  /\ UNCHANGED << replacementChar, useSimpleFilter, useRegexFilter,
                  useTrieFilter, call >>

\* HybridFilter::configureFilters(useSimple, useRegex, useTrie)
ConfigureFilters(useSimple, useRegex, useTrie) ==
  /\ call.pc = "idle"
  /\ useSimpleFilter' = useSimple
  /\ useRegexFilter' = useRegex
  /\ useTrieFilter' = useTrie
  /\ UNCHANGED << profanityList, profanityPatterns, root, replacementChar,
                  added, addedDisabled, call >>

\* One iteration of the test loop of main on the hybrid filter:
\* containsProfanity(text), then censor(text).  With one strategy enabled
\* the two calls are that sub-filter's own containsProfanity and censor, on
\* the state a stand-alone filter of that class has after the same
\* addProfanity calls.
TestText(text) ==
  /\ call.pc = "idle"
  /\ LET d == HybridContains(profanityList, profanityPatterns, root,
                             useSimpleFilter, useRegexFilter, useTrieFilter,
                             text)
         r == HybridCensor(profanityList, profanityPatterns, d.trie,
                           replacementChar, useSimpleFilter, useRegexFilter,
                           useTrieFilter, text)
     IN /\ call' = Called(text, d.found, r)
        /\ root' = r.trie
  /\ UNCHANGED << profanityList, profanityPatterns, replacementChar,
                  useSimpleFilter, useRegexFilter, useTrieFilter, added,
                  addedDisabled >>

\* Both calls have returned and main goes on to the next text.  A censor
\* call that never returns leaves the program inside it for ever.
NextText ==
  /\ call.pc = "returned"
  /\ call' = Idle
  /\ UNCHANGED << profanityList, profanityPatterns, root, replacementChar,
                  useSimpleFilter, useRegexFilter, useTrieFilter, added,
                  addedDisabled >>

Next ==
  \/ \E word \in AddWords : AddProfanity(word)
  \/ \E a \in BOOLEAN, b \in BOOLEAN, c \in BOOLEAN : ConfigureFilters(a, b, c)
  \/ \E text \in Texts : TestText(text)
  \/ NextText

Spec == Init /\ [][Next]_vars

\* ------------------------------------------------------------- properties
OnlySimple == useSimpleFilter /\ ~useRegexFilter /\ ~useTrieFilter
OnlyRegex == ~useSimpleFilter /\ useRegexFilter /\ ~useTrieFilter
OnlyTrie == ~useSimpleFilter /\ ~useRegexFilter /\ useTrieFilter
AllThree == useSimpleFilter /\ useRegexFilter /\ useTrieFilter

\* The words a literal strategy is to hold: the defaults and every word
\* passed to addProfanity, case-folded.
Banned == DefaultWords \cup {toLower(added[k]) : k \in 1..Len(added)}

\* text with the positions of P (0-based) replaced by the mask character
MaskAt(text, P) ==
  [i \in 1..Len(text) |-> IF (i - 1) \in P THEN replacementChar ELSE text[i]]

Masks(n) == [i \in 1..n |-> replacementChar]

Assassin == <<"a","s","s","a","s","s","i","n">>

\* C1: whatever strategies are enabled and whatever words were added, a
\* censor call that returns, returns a string of the length of its input.
LengthPreserved ==
  call.pc = "returned" => Len(call.censored) = Len(call.text)

LengthPreservedWitness ==
  /\ call.pc = "returned"
  /\ AllThree
  /\ Len(added) > 0
  /\ call.text = Assassin
  /\ call.censored # call.text
  /\ Len(call.censored) = 8

\* The positions the trie scan is to mask: at each scanned start i the longest
\* banned word beginning at i, the scan resuming right after it, and one
\* position further when no banned word begins at i.
RECURSIVE LongestFrom(_, _, _)
LongestFrom(lowerText, words, i) ==
  IF i >= Len(lowerText)
    THEN {}
    ELSE LET lens == {n \in 1..(Len(lowerText) - i) :
                        SubSeq(lowerText, i + 1, i + n) \in words}
         IN IF lens = {}
              THEN LongestFrom(lowerText, words, i + 1)
              ELSE (i..(i + Max(lens) - 1))
                     \cup LongestFrom(lowerText, words, i + Max(lens))

\* C2: TrieFilter::censor masks, scanning left to right, the longest banned
\* word beginning at each scanned start and resumes right after it; with
\* "ass" and "assassin" banned, all 8 characters of "assassin" are masked.
TrieLongestMatch ==
  (call.pc = "returned" /\ OnlyTrie) =>
     /\ call.censored =
          MaskAt(call.text, LongestFrom(toLower(call.text), Banned, 0))
     /\ (toLower(call.text) = Assassin /\ Assassin \in Banned)
          => call.censored = Masks(8)

TrieLongestMatchWitness ==
  /\ call.pc = "returned"
  /\ OnlyTrie
  /\ {<<"a","s","s">>, Assassin} \subseteq Banned
  /\ call.text = Assassin
  /\ call.censored = Masks(8)

\* C3 as stated: for the simple and the trie strategy, censor changes the
\* text if and only if containsProfanity reports a match.
DetectionIffMasking ==
  (call.pc = "returned" /\ (OnlySimple \/ OnlyTrie)) =>
     ((call.censored # call.text) <=> call.detected)

\* C3 as amended: for the simple and the trie strategy, censor changes the
\* text only if containsProfanity reports a match; and when a match is
\* reported the censored text holds a mask character, though it may equal
\* the text (the matched characters were mask characters already).
DetectionConsistent ==
  (call.pc = "returned" /\ (OnlySimple \/ OnlyTrie)) =>
     /\ (call.censored # call.text) => call.detected
     /\ call.detected =>
          \E i \in 1..Len(call.censored) : call.censored[i] = replacementChar

DetectionConsistentWitness ==
  /\ call.pc = "returned"
  /\ OnlySimple
  /\ call.detected
  /\ call.text # << >>
  /\ call.censored = call.text

IsOrdinary(word) ==
  \A i \in 1..Len(word) : word[i] \notin {"*", "+", "[", "]"}

\* C4: addProfanity reaches all three sub-filters whatever the flags are:
\* each sub-filter holds what it holds after receiving every word added so
\* far, so a strategy enabled later matches the words added while it was
\* disabled (the regex strategy takes a word as a pattern, and matches the
\* word itself when it is made of ordinary characters).
BroadcastRegardlessOfFlags ==
  /\ profanityList = Banned
  /\ {node \in DOMAIN root : root[node]} = Banned
  /\ profanityPatterns =
       addPatterns(addPatterns(<< >>, DefaultPatterns, 1), added, 1)
  /\ \A k \in 1..Len(added) :
        added[k] # << >> =>
          /\ SimpleContains(profanityList, added[k])
          /\ TrieContains(root, added[k]).found
          /\ IsOrdinary(added[k]) => RegexContains(profanityPatterns, added[k])

BroadcastWitness ==
  /\ addedDisabled
  /\ Len(added) > 0
  /\ added[Len(added)] = Assassin
  /\ OnlyTrie
  /\ call.pc = "returned"
  /\ call.text = Assassin
  /\ call.detected
  /\ call.censored = Masks(8)

\* C5: HybridFilter::censor is the composition of the enabled stages in the
\* order simple, regex, trie, each on the output of the stage before it;
\* with the three flags off it returns its input.
SequentialPipeline ==
  call.pc = "returned" =>
     LET s1 == IF useSimpleFilter
                 THEN SimpleCensor(profanityList, replacementChar,
                                   call.text).str
                 ELSE call.text
         s2 == IF useRegexFilter
                 THEN RegexCensor(profanityPatterns, replacementChar, s1).str
                 ELSE s1
         s3 == IF useTrieFilter
                 THEN TrieCensor(root, replacementChar, s2).str
                 ELSE s2
     IN /\ call.censored = s3
        /\ (~useSimpleFilter /\ ~useRegexFilter /\ ~useTrieFilter)
             => call.censored = call.text

\* "shasst": the simple stage masks "ass", and the regex stage then matches
\* sh[aeiou*]+t on "sh***t".
SequentialPipelineWitness ==
  /\ call.pc = "returned"
  /\ AllThree
  /\ call.text = <<"s","h","a","s","s","t">>
  /\ call.censored = Masks(6)

\* C6: every containsProfanity and censor call returns, on every state
\* addProfanity calls can reach.
CallsReturn == call.pc # "hung"

EngineState ==
  << profanityList, profanityPatterns, root, replacementChar,
     useSimpleFilter, useRegexFilter, useTrieFilter >>

\* C7: containsProfanity and censor leave the word set, the pattern list, the
\* trie, the mask character and the flags as they were.
CallsLeaveEngineUnchanged ==
  [][(call.pc = "idle" /\ call'.pc # "idle") => EngineState' = EngineState]_vars

CallsLeaveEngineUnchangedWitness ==
  /\ call.pc = "returned"
  /\ useTrieFilter
  /\ Len(added) > 0
  /\ call.detected
  /\ call.censored # call.text

\* The positions covered by an occurrence of a non-empty word of the list,
\* overlapping occurrences included.
AllOccurrences(lowerText, list) ==
  {i \in 0..(Len(lowerText) - 1) :
     \E word \in list : \E p \in 0..i :
        /\ Len(word) > 0
        /\ i < p + Len(word)
        /\ p + Len(word) <= Len(lowerText)
        /\ SubSeq(lowerText, p + 1, p + Len(word)) = word}

\* C8 as stated: SimpleReplacementFilter::censor masks exactly the union of
\* the ranges of all occurrences of all banned words, overlapping
\* occurrences of one word included.
SimpleMasksAllOccurrences ==
  (call.pc = "returned" /\ OnlySimple) =>
     call.censored =
       MaskAt(call.text, AllOccurrences(toLower(call.text), profanityList))

\* The positions covered by the occurrences of word a left-to-right scan
\* finds when it resumes at the end of each occurrence found.
RECURSIVE ScannedOccurrences(_, _, _)
ScannedOccurrences(lowerText, word, pos) ==
  LET starts == {p \in pos..(Len(lowerText) - Len(word)) :
                   SubSeq(lowerText, p + 1, p + Len(word)) = word}
  IN IF starts = {} \/ Len(word) = 0
       THEN {}
       ELSE (Min(starts)..(Min(starts) + Len(word) - 1))
              \cup ScannedOccurrences(lowerText, word, Min(starts) + Len(word))

\* C8 as amended: SimpleReplacementFilter::censor masks, for each banned
\* word, the occurrences a left-to-right scan finds when it resumes at the
\* end of each occurrence found; an occurrence overlapping an earlier
\* occurrence of the same word is not masked on its own account.
SimpleMasksScannedOccurrences ==
  (call.pc = "returned" /\ OnlySimple) =>
     call.censored =
       MaskAt(call.text,
              UNION {ScannedOccurrences(toLower(call.text), word, 0) :
                       word \in profanityList})

\* "aa" banned, text "aaa": "**a".
SimpleMasksScannedWitness ==
  /\ call.pc = "returned"
  /\ OnlySimple
  /\ <<"a","a">> \in profanityList
  /\ call.text = <<"a","a","a">>
  /\ call.censored = <<"*","*","a">>

\* The censor of the claim: each pattern scans the string as masked by the
\* patterns before it.
RECURSIVE ProgressiveCensorFrom(_, _, _, _)
ProgressiveCensorFrom(result, patterns, k, mask) ==
  IF k > Len(patterns)
    THEN Returned(result)
    ELSE LET r == RegexCensorPattern(result, toLower(result), patterns[k], 0,
                                     mask)
         IN IF r.hang
              THEN r
              ELSE ProgressiveCensorFrom(r.str, patterns, k + 1, mask)

RECURSIVE ScannedMatches(_, _, _)
ScannedMatches(lowerText, pattern, searchStart) ==
  LET m == RegexSearch(lowerText, searchStart, pattern)
  IN IF ~m.found \/ m.len = 0
       THEN {}
       ELSE (m.pos..(m.pos + m.len - 1))
              \cup ScannedMatches(lowerText, pattern, m.pos + m.len)

SameDetection ==
  call.pc # "idle" =>
     (SimpleContains(profanityList, call.text)
        <=> TrieContains(root, call.text).found)

====
